---- MODULE Spec2Model ----

(***************************************************************************)
(* SGM lunch menu updater (scripts/update_menu.py).                        *)
(*                                                                         *)
(* Python strings are modelled as sequences of one-character strings, so   *)
(* that substring tests, regular-expression searches, formatting and       *)
(* parsing are computed rather than assumed.  Five specifications:         *)
(*   Spec          main(): a sequence of runs over the data directory      *)
(*   SpecLocate    extract_menu_meta_from_images                            *)
(*   SpecDownload  download_image                                           *)
(*   SpecParse     the response parsing of parse_image_with_gemini          *)
(*   SpecValidate  validate_menu_map                                        *)
(***************************************************************************)
EXTENDS Integers, Sequences, FiniteSets, TLC

VARIABLES
    clock,              \* datetime.now(): [year, month]
    environ,            \* os.environ of the running process
    menu_files,         \* DATA_DIR: month_key -> the menu map of <month_key>.json
    raw_files,          \* RAW_DIR: file name -> bytes
    status_file,        \* DATA_DIR / status.json
    pc,                 \* the call main() is about to make
    meta,               \* main's meta
    current_month_key,  \* main's current_month_key
    image_path,         \* main's image_path
    menu_map,           \* main's menu_map
    ops,                \* the external operations of the current run, in order
    exit_code,          \* the value main() returned
    returned_at,        \* the return statement main() left by
    prev_failed,        \* the month_key of the previous run when it failed after the check
    call,               \* the arguments of a function applied on its own
    ret                 \* its result

mainvars == <<clock, environ, menu_files, raw_files, status_file, pc, meta,
              current_month_key, image_path, menu_map, ops, exit_code, returned_at,
              prev_failed>>

vars == <<mainvars, call, ret>>

(***************************************************************************)
(* Bounds of the model.                                                    *)
(***************************************************************************)
\* longest list of <img> sources handed to the locator
MaxUrls == 2

\* most entries of a raw menu map handed to the validator
MaxEntries == 2

\* months the clock advances over a sequence of runs
MaxTicks == 1

(***************************************************************************)
(* Python str primitives on character sequences.                           *)
(***************************************************************************)
\* the character U+0060, which a TLA+ string cannot hold
Backtick == "U+0060"

DigitChars == {"0","1","2","3","4","5","6","7","8","9"}

DigitVal == [c \in DigitChars |->
               CASE c = "0" -> 0 [] c = "1" -> 1 [] c = "2" -> 2 [] c = "3" -> 3
                 [] c = "4" -> 4 [] c = "5" -> 5 [] c = "6" -> 6 [] c = "7" -> 7
                 [] c = "8" -> 8 [] c = "9" -> 9]

DigitChar == [d \in 0..9 |-> CHOOSE c \in DigitChars : DigitVal[c] = d]

\* the cased letters that occur in the modelled strings
UpperOf == ("a" :> "A") @@ ("c" :> "C") @@ ("d" :> "D") @@ ("f" :> "F") @@ ("g" :> "G") @@
           ("j" :> "J") @@ ("m" :> "M") @@ ("n" :> "N") @@ ("o" :> "O") @@
           ("p" :> "P") @@ ("s" :> "S")

LowerChar(c) == IF \E l \in DOMAIN UpperOf : UpperOf[l] = c
                THEN CHOOSE l \in DOMAIN UpperOf : UpperOf[l] = c
                ELSE c

UpperChar(c) == IF c \in DOMAIN UpperOf THEN UpperOf[c] ELSE c

\* str.lower()
lower(s) == [i \in 1..Len(s) |-> LowerChar(s[i])]

\* str.capitalize()
capitalize(s) == [i \in 1..Len(s) |-> IF i = 1 THEN UpperChar(s[i]) ELSE LowerChar(s[i])]

\* s[i:i+len(p)] == p
MatchAt(s, i, p) == /\ i >= 1
                    /\ i + Len(p) - 1 <= Len(s)
                    /\ \A k \in 1..Len(p) : s[i + k - 1] = p[k]

\* "p in s"
Contains(s, p) == \E i \in 1..(Len(s) + 1) : MatchAt(s, i, p)

\* s.startswith(p), s.endswith(p)
startswith(s, p) == MatchAt(s, 1, p)

endswith(s, p) == Len(p) <= Len(s) /\ MatchAt(s, Len(s) - Len(p) + 1, p)

IsDigitAt(s, i) == i >= 1 /\ i <= Len(s) /\ s[i] \in DigitChars

IsCharAt(s, i, c) == i >= 1 /\ i <= Len(s) /\ s[i] = c

\* int(s) of a string of decimal digits
RECURSIVE DigitsToInt(_)
DigitsToInt(s) == IF Len(s) = 0 THEN 0
                  ELSE 10 * DigitsToInt(SubSeq(s, 1, Len(s) - 1)) + DigitVal[s[Len(s)]]

\* str(n) for n >= 0
RECURSIVE IntToStr(_)
IntToStr(n) == IF n < 10 THEN <<DigitChar[n]>>
               ELSE IntToStr(n \div 10) \o <<DigitChar[n % 10]>>

\* f"{n:02d}" for n >= 0
Pad2(n) == IF n < 10 THEN <<"0">> \o IntToStr(n) ELSE IntToStr(n)

\* f"{year}-{month_num:02d}"
FormatMonthKey(year, month_num) == IntToStr(year) \o <<"-">> \o Pad2(month_num)

(***************************************************************************)
(* Constants of the script.                                                *)
(***************************************************************************)
MENU_URL == <<"h","t","t","p","s",":","/","/","w","w","w",".","s","g","m","i","s","s","i","o","n",".","o","r","g","/","l","u","n","c","h","-","m","e","n","u">>

MONTH_MAP == (<<"j","a","n","u","a","r","y">> :> 1) @@ (<<"f","e","b","r","u","a","r","y">> :> 2) @@ (<<"m","a","r","c","h">> :> 3) @@
             (<<"a","p","r","i","l">> :> 4) @@ (<<"m","a","y">> :> 5) @@ (<<"j","u","n","e">> :> 6) @@
             (<<"j","u","l","y">> :> 7) @@ (<<"a","u","g","u","s","t">> :> 8) @@ (<<"s","e","p","t","e","m","b","e","r">> :> 9) @@
             (<<"o","c","t","o","b","e","r">> :> 10) @@ (<<"n","o","v","e","m","b","e","r">> :> 11) @@ (<<"d","e","c","e","m","b","e","r">> :> 12)

MONTH_NAMES == [v \in {MONTH_MAP[k] : k \in DOMAIN MONTH_MAP} |->
                  capitalize(CHOOSE k \in DOMAIN MONTH_MAP : MONTH_MAP[k] = v)]

\* now.strftime("%B"): the full month name of the C locale
strftime_B(now) ==
    CASE now.month = 1 -> <<"J","a","n","u","a","r","y">> [] now.month = 2 -> <<"F","e","b","r","u","a","r","y">>
      [] now.month = 3 -> <<"M","a","r","c","h">> [] now.month = 4 -> <<"A","p","r","i","l">>
      [] now.month = 5 -> <<"M","a","y">> [] now.month = 6 -> <<"J","u","n","e">>
      [] now.month = 7 -> <<"J","u","l","y">> [] now.month = 8 -> <<"A","u","g","u","s","t">>
      [] now.month = 9 -> <<"S","e","p","t","e","m","b","e","r">> [] now.month = 10 -> <<"O","c","t","o","b","e","r">>
      [] now.month = 11 -> <<"N","o","v","e","m","b","e","r">> [] now.month = 12 -> <<"D","e","c","e","m","b","e","r">>

(***************************************************************************)
(* extract_menu_meta_from_images (Source Locator).                         *)
(***************************************************************************)
NoMatch == [matched |-> FALSE, year |-> 0, month |-> 0]

\* the regular expression /pictures/(\d{4})/(\d{1,2})/ matched at position i
DateMatchAt(src, i) ==
    LET y == i + 10
        m == y + 5
    IN  IF /\ MatchAt(src, i, <<"/","p","i","c","t","u","r","e","s","/">>)
           /\ \A k \in 0..3 : IsDigitAt(src, y + k)
           /\ IsCharAt(src, y + 4, "/")
           /\ IsDigitAt(src, m)
        THEN IF IsDigitAt(src, m + 1) /\ IsCharAt(src, m + 2, "/")
             THEN [matched |-> TRUE, year |-> DigitsToInt(SubSeq(src, y, y + 3)),
                   month |-> DigitsToInt(SubSeq(src, m, m + 1))]
             ELSE IF IsCharAt(src, m + 1, "/")
             THEN [matched |-> TRUE, year |-> DigitsToInt(SubSeq(src, y, y + 3)),
                   month |-> DigitsToInt(SubSeq(src, m, m))]
             ELSE NoMatch
        ELSE NoMatch

\* re.search: the leftmost position at which the expression matches
date_match(src) ==
    IF \E i \in 1..Len(src) : DateMatchAt(src, i).matched
    THEN DateMatchAt(src, CHOOSE i \in 1..Len(src) :
                            /\ DateMatchAt(src, i).matched
                            /\ \A j \in 1..(i - 1) : ~DateMatchAt(src, j).matched)
    ELSE NoMatch

\* the filters at the head of the first loop (lines 64-67)
OnApprovedDomain(src) == Contains(lower(src), <<"e","c","a","t","h","o","l","i","c">>)

HasAssetMarker(src) == \/ Contains(lower(src), <<"l","o","g","o">>)
                       \/ Contains(lower(src), <<"s","e","a","l">>)
                       \/ Contains(lower(src), <<"i","c","o","n">>)

HasJpg(src) == Contains(lower(src), <<".","j","p","g">>)

NothingSelected == [has_url |-> FALSE, image_url |-> <<>>, has_date |-> FALSE,
                    detected_year |-> 0, detected_month |-> 0]

\* mutation of DatedSelects: line 74's condition dropped, every dated match overwrites
DatedSelects_Overwrite(src, now, acc) ==
    /\ OnApprovedDomain(src)
    /\ ~HasAssetMarker(src)
    /\ date_match(src).matched
    /\ date_match(src).year >= now.year - 1

\* whether the first loop assigns image_url, detected_year, detected_month at src
DatedSelects(src, now, acc) ==
    /\ OnApprovedDomain(src)
    /\ ~HasAssetMarker(src)
    /\ date_match(src).matched
    /\ date_match(src).year >= now.year - 1
    /\ (HasJpg(src) \/ ~acc.has_url)

\* the first loop (lines 63-77), from element i on
RECURSIVE DatedPass(_, _, _, _)
DatedPass(image_urls, i, now, acc) ==
    IF i > Len(image_urls) THEN acc
    ELSE IF DatedSelects(image_urls[i], now, acc)
         THEN DatedPass(image_urls, i + 1, now,
                        [has_url |-> TRUE, image_url |-> image_urls[i], has_date |-> TRUE,
                         detected_year |-> date_match(image_urls[i]).year,
                         detected_month |-> date_match(image_urls[i]).month])
         ELSE DatedPass(image_urls, i + 1, now, acc)

\* the condition of the second loop (line 81)
FallbackSelects(src) ==
    /\ Contains(lower(src), <<"e","c","a","t","h","o","l","i","c">>)
    /\ Contains(lower(src), <<".","j","p","g">>)
    /\ ~Contains(lower(src), <<"l","o","g","o">>)

\* mutation of FallbackPass: line 83's break dropped, the last candidate is kept
FallbackPass_NoBreak(image_urls, acc) ==
    IF acc.has_url /\ acc.image_url # <<>> THEN acc
    ELSE IF \E i \in 1..Len(image_urls) : FallbackSelects(image_urls[i])
         THEN [acc EXCEPT !.has_url = TRUE,
                          !.image_url = image_urls[CHOOSE i \in 1..Len(image_urls) :
                                 /\ FallbackSelects(image_urls[i])
                                 /\ \A j \in (i + 1)..Len(image_urls) :
                                        ~FallbackSelects(image_urls[j])]]
         ELSE acc

\* the second loop (lines 79-83): the first candidate, when nothing is selected yet
FallbackPass(image_urls, acc) ==
    IF acc.has_url /\ acc.image_url # <<>> THEN acc
    ELSE IF \E i \in 1..Len(image_urls) : FallbackSelects(image_urls[i])
         THEN [acc EXCEPT !.has_url = TRUE,
                          !.image_url = image_urls[CHOOSE i \in 1..Len(image_urls) :
                                 /\ FallbackSelects(image_urls[i])
                                 /\ \A j \in 1..(i - 1) : ~FallbackSelects(image_urls[j])]]
         ELSE acc

\* urllib.parse.urljoin(base, url) for a base with path /lunch-menu and a url
\* without query, fragment or dot segments
Origin(base) == SubSeq(base, 1, Len(<<"h","t","t","p","s",":","/","/","w","w","w",".","s","g","m","i","s","s","i","o","n",".","o","r","g">>))

urljoin(base, url) ==
    IF url = <<>> THEN base
    ELSE IF startswith(url, <<"h","t","t","p","s",":">>) \/ startswith(url, <<"h","t","t","p",":">>) THEN url
    ELSE IF startswith(url, <<"/","/">>) THEN <<"h","t","t","p","s",":">> \o url
    ELSE IF startswith(url, <<"/">>) THEN Origin(base) \o url
    ELSE Origin(base) \o <<"/">> \o url

NoMeta == [month_name |-> <<>>, year |-> 0, month_num |-> 0, image_url |-> <<>>,
           month_key |-> <<>>]

Raise(e) == [exc |-> e, value |-> NoMeta]

Return(v) == [exc |-> "none", value |-> v]

extract_menu_meta_from_images(image_urls, now) ==
    LET sel == FallbackPass(image_urls, DatedPass(image_urls, 1, now, NothingSelected))
    IN  IF ~sel.has_url \/ sel.image_url = <<>> THEN Raise("ValueError")
        ELSE IF sel.has_date /\ sel.detected_year # 0 /\ sel.detected_month # 0
        THEN IF sel.detected_month \notin DOMAIN MONTH_NAMES THEN Raise("KeyError")
             ELSE Return([month_name |-> MONTH_NAMES[sel.detected_month],
                          year |-> sel.detected_year,
                          month_num |-> sel.detected_month,
                          image_url |-> urljoin(MENU_URL, sel.image_url),
                          month_key |-> FormatMonthKey(sel.detected_year, sel.detected_month)])
        ELSE Return([month_name |-> strftime_B(now),
                     year |-> now.year,
                     month_num |-> now.month,
                     image_url |-> urljoin(MENU_URL, sel.image_url),
                     month_key |-> FormatMonthKey(now.year, now.month)])

(***************************************************************************)
(* download_image (Image Fetcher).  The outcome of requests.get and of     *)
(* the curl subprocess are inputs; bytes are sequences of numbers, and     *)
(* image_data = None is the empty sequence (only its truth value is read). *)
(***************************************************************************)
\* mutation of PrimaryAccepts: any 2xx status is taken
PrimaryAccepts_Any2xx(primary) ==
    ~primary.exc /\ primary.status_code >= 200 /\ primary.status_code <= 299

\* lines 172-173: no exception and status_code == 200
PrimaryAccepts(primary) == ~primary.exc /\ primary.status_code = 200

\* lines 168-177: image_data and content_type after the primary attempt
AfterPrimary(primary) ==
    IF PrimaryAccepts(primary)
    THEN [image_data |-> primary.content, content_type |-> primary.content_type]
    ELSE [image_data |-> <<>>, content_type |-> <<>>]

\* lines 181-189: no exception, returncode == 0 and result.stdout non-empty
SecondaryAccepts(secondary) ==
    ~secondary.exc /\ secondary.returncode = 0 /\ secondary.stdout # <<>>

\* lines 194-199
Extension(content_type, image_url) ==
    IF Contains(content_type, <<"p","n","g">>) \/ endswith(lower(image_url), <<".","p","n","g">>) THEN <<".","p","n","g">>
    ELSE IF Contains(content_type, <<"g","i","f">>) \/ endswith(lower(image_url), <<".","g","i","f">>) THEN <<".","g","i","f">>
    ELSE <<".","j","p","g">>

NoPath == <<>>

download_image(image_url, month_key, primary, secondary) ==
    LET p == AfterPrimary(primary)
        fallback == p.image_data = <<>>
        image_data == IF ~fallback THEN p.image_data
                      ELSE IF SecondaryAccepts(secondary) THEN secondary.stdout
                      ELSE <<>>
        calls == IF fallback THEN <<"requests.get", "curl">> ELSE <<"requests.get">>
    IN  IF image_data = <<>>
        THEN [exc |-> "RuntimeError", calls |-> calls, image_path |-> NoPath,
              image_data |-> <<>>]
        ELSE [exc |-> "none", calls |-> calls,
              image_path |-> month_key \o Extension(p.content_type, image_url),
              image_data |-> image_data]

(***************************************************************************)
(* json.loads on texts without arrays, floats and backslash escapes.       *)
(* A decoded value is a record: t is its Python type; a dict is the        *)
(* sequence of its items in insertion order.                               *)
(***************************************************************************)
JNull == [t |-> "NoneType", s |-> <<>>, n |-> 0, items |-> <<>>]

JStr(s) == [t |-> "str", s |-> s, n |-> 0, items |-> <<>>]

JInt(n) == [t |-> "int", s |-> <<>>, n |-> n, items |-> <<>>]

JBool(b) == [t |-> "bool", s |-> <<>>, n |-> IF b THEN 1 ELSE 0, items |-> <<>>]

JDict(items) == [t |-> "dict", s |-> <<>>, n |-> 0, items |-> items]

\* str.isspace() of the characters str.strip() and the JSON scanner skip
Whitespace == {" ", "\n", "\t", "\r"}

\* characters that end a string chunk without closing it
ControlChars == {"\n", "\t", "\r"}

\* str.strip()
strip(s) ==
    IF \A i \in 1..Len(s) : s[i] \in Whitespace THEN <<>>
    ELSE SubSeq(s, CHOOSE i \in 1..Len(s) :
                       s[i] \notin Whitespace /\ \A j \in 1..(i - 1) : s[j] \in Whitespace,
                   CHOOSE i \in 1..Len(s) :
                       s[i] \notin Whitespace /\ \A j \in (i + 1)..Len(s) : s[j] \in Whitespace)

\* the first index >= i that holds no whitespace (Len(s) + 1 when there is none)
SkipWs(s, i) ==
    CHOOSE j \in i..(Len(s) + 1) :
        /\ \A k \in i..(j - 1) : s[k] \in Whitespace
        /\ (j <= Len(s) => s[j] \notin Whitespace)

ParseFail == [ok |-> FALSE, pos |-> 0, value |-> JNull]

ParseOk(pos, value) == [ok |-> TRUE, pos |-> pos, value |-> value]

\* scanstring: s[i] is the opening quote
ParseString(s, i) ==
    IF \E j \in (i + 1)..Len(s) : s[j] = "\"" \/ s[j] \in ControlChars
    THEN LET j == CHOOSE j \in (i + 1)..Len(s) :
                      /\ (s[j] = "\"" \/ s[j] \in ControlChars)
                      /\ \A k \in (i + 1)..(j - 1) : ~(s[k] = "\"" \/ s[k] \in ControlChars)
         IN  IF s[j] = "\"" THEN ParseOk(j + 1, JStr(SubSeq(s, i + 1, j - 1)))
             ELSE ParseFail
    ELSE ParseFail

\* the end of the run of digits that starts at i
DigitsEnd(s, i) ==
    CHOOSE j \in i..(Len(s) + 1) :
        /\ \A k \in i..(j - 1) : s[k] \in DigitChars
        /\ (j <= Len(s) => s[j] \notin DigitChars)

\* NUMBER_RE's integer part (-?(?:0|[1-9]\d*)) at i
ParseNumber(s, i) ==
    LET neg == IsCharAt(s, i, "-")
        d == IF neg THEN i + 1 ELSE i
    IN  IF ~IsDigitAt(s, d) THEN ParseFail
        ELSE IF s[d] = "0" THEN ParseOk(d + 1, JInt(0))
        ELSE ParseOk(DigitsEnd(s, d),
                     JInt((IF neg THEN -1 ELSE 1) * DigitsToInt(SubSeq(s, d, DigitsEnd(s, d) - 1))))

\* dict(pairs): a repeated key keeps its first position and takes the last value
RECURSIVE DictFromPairs(_, _)
DictFromPairs(pairs, acc) ==
    IF pairs = <<>> THEN acc
    ELSE LET p == Head(pairs)
         IN  IF \E i \in 1..Len(acc) : acc[i].key = p.key
             THEN DictFromPairs(Tail(pairs),
                    [i \in 1..Len(acc) |-> IF acc[i].key = p.key THEN p ELSE acc[i]])
             ELSE DictFromPairs(Tail(pairs), Append(acc, p))

RECURSIVE ParseValue(_, _), ParseMembers(_, _, _)

\* JSONObject: i is the index after the opening brace
ParseObject(s, i) ==
    LET j == SkipWs(s, i)
    IN  IF IsCharAt(s, j, "}") THEN ParseOk(j + 1, JDict(<<>>))
        ELSE IF IsCharAt(s, j, "\"") THEN ParseMembers(s, j, <<>>)
        ELSE ParseFail

\* the members of an object from the key whose opening quote is at j
ParseMembers(s, j, pairs) ==
    LET k == ParseString(s, j)
        c == SkipWs(s, k.pos)
        v == ParseValue(s, SkipWs(s, c + 1))
        d == SkipWs(s, v.pos)
        n == SkipWs(s, d + 1)
        all == Append(pairs, [key |-> k.value.s, value |-> v.value])
    IN  IF ~k.ok THEN ParseFail
        ELSE IF ~IsCharAt(s, c, ":") THEN ParseFail
        ELSE IF ~v.ok THEN ParseFail
        ELSE IF IsCharAt(s, d, "}") THEN ParseOk(d + 1, JDict(DictFromPairs(all, <<>>)))
        ELSE IF ~IsCharAt(s, d, ",") THEN ParseFail
        ELSE IF ~IsCharAt(s, n, "\"") THEN ParseFail
        ELSE ParseMembers(s, n, all)

\* scan_once at i
ParseValue(s, i) ==
    IF i > Len(s) THEN ParseFail
    ELSE IF s[i] = "\"" THEN ParseString(s, i)
    ELSE IF s[i] = "{" THEN ParseObject(s, i + 1)
    ELSE IF MatchAt(s, i, <<"n","u","l","l">>) THEN ParseOk(i + 4, JNull)
    ELSE IF MatchAt(s, i, <<"t","r","u","e">>) THEN ParseOk(i + 4, JBool(TRUE))
    ELSE IF MatchAt(s, i, <<"f","a","l","s","e">>) THEN ParseOk(i + 5, JBool(FALSE))
    ELSE ParseNumber(s, i)

\* json.loads(s): ok is FALSE where it raises JSONDecodeError
json_loads(s) ==
    LET v == ParseValue(s, SkipWs(s, 1))
    IN  IF v.ok /\ SkipWs(s, v.pos) = Len(s) + 1
        THEN [ok |-> TRUE, value |-> v.value]
        ELSE [ok |-> FALSE, value |-> JNull]

(***************************************************************************)
(* parse_image_with_gemini, lines 254-270: the recovery of a JSON value    *)
(* from the response text.                                                 *)
(***************************************************************************)
NoGroup == [matched |-> FALSE, group |-> <<>>]

\* the fence expression of line 259 matched at i: three backticks, an optional
\* json, whitespace, the shortest group(1), whitespace, three backticks
FenceMatchAt(s, i) ==
    IF ~MatchAt(s, i, <<Backtick,Backtick,Backtick>>) THEN NoGroup
    ELSE LET p == IF MatchAt(s, i + 3, <<"j","s","o","n">>) THEN i + 7 ELSE i + 3
             q == SkipWs(s, p)
         IN  IF \E c \in q..Len(s) : MatchAt(s, c, <<Backtick,Backtick,Backtick>>)
             THEN LET c == CHOOSE c \in q..Len(s) :
                               /\ MatchAt(s, c, <<Backtick,Backtick,Backtick>>)
                               /\ \A b \in q..(c - 1) : ~MatchAt(s, b, <<Backtick,Backtick,Backtick>>)
                      e == CHOOSE e \in q..c :
                               /\ \A k \in e..(c - 1) : s[k] \in Whitespace
                               /\ (e > q => s[e - 1] \notin Whitespace)
                  IN  [matched |-> TRUE, group |-> SubSeq(s, q, e - 1)]
             ELSE NoGroup

\* re.search of the fence expression
fence_search(s) ==
    IF \E i \in 1..Len(s) : FenceMatchAt(s, i).matched
    THEN FenceMatchAt(s, CHOOSE i \in 1..Len(s) :
                             /\ FenceMatchAt(s, i).matched
                             /\ \A j \in 1..(i - 1) : ~FenceMatchAt(s, j).matched)
    ELSE NoGroup

\* re.search of line 263: from the first opening brace to the last closing one
span_search(s) ==
    IF \E a \in 1..Len(s) : s[a] = "{" /\ \E b \in (a + 1)..Len(s) : s[b] = "}"
    THEN LET a == CHOOSE a \in 1..Len(s) : s[a] = "{" /\ \A j \in 1..(a - 1) : s[j] # "{"
             b == CHOOSE b \in 1..Len(s) : s[b] = "}" /\ \A j \in (b + 1)..Len(s) : s[j] # "}"
         IN  [matched |-> TRUE, group |-> SubSeq(s, a, b)]
    ELSE NoGroup

\* line 269: len(menu_map) raises TypeError on a value without a length
Line269(value, tried) ==
    IF value.t \in {"int", "bool", "NoneType"}
    THEN [exc |-> "TypeError", tried |-> tried, value |-> JNull]
    ELSE [exc |-> "none", tried |-> tried, value |-> value]

\* lines 261 and 265: json.loads inside the except block; its error propagates
LoadOrPropagate(text, tried) ==
    IF json_loads(text).ok THEN Line269(json_loads(text).value, tried)
    ELSE [exc |-> "JSONDecodeError", tried |-> tried, value |-> JNull]

\* lines 254-270; tried lists the texts handed to json.loads, in order
parse_response(text) ==
    LET response_text == strip(text)
    IN  IF json_loads(response_text).ok
        THEN Line269(json_loads(response_text).value, <<"direct">>)
        ELSE IF fence_search(response_text).matched
        THEN LoadOrPropagate(fence_search(response_text).group, <<"direct", "fence">>)
        ELSE IF span_search(response_text).matched
        THEN LoadOrPropagate(span_search(response_text).group, <<"direct", "span">>)
        ELSE [exc |-> "ValueError", tried |-> <<"direct">>, value |-> JNull]

(***************************************************************************)
(* validate_menu_map (Validator / Normalizer).                             *)
(***************************************************************************)
\* the printable ASCII characters in code point order, from U+0020
Ascii == <<" ","!","\"","#","$","%","&">> \o <<"'">> \o
         <<"(",")","*","+",",","-",".","/","0","1","2","3","4","5","6","7","8","9",":",";","<","=",">","?","@","A","B","C","D","E","F","G","H","I","J","K","L","M","N","O","P","Q","R","S","T","U","V","W","X","Y","Z","[","\\","]","^","_">> \o
         <<Backtick>> \o <<"a","b","c","d","e","f","g","h","i","j","k","l","m","n","o","p","q","r","s","t","u","v","w","x","y","z","{","|","}","~">>

\* ord(c)
CodePoint == [c \in {Ascii[i] : i \in 1..Len(Ascii)} |->
                31 + CHOOSE i \in 1..Len(Ascii) : Ascii[i] = c]

\* a < b on str
RECURSIVE StrLess(_, _)
StrLess(a, b) ==
    IF b = <<>> THEN FALSE
    ELSE IF a = <<>> THEN TRUE
    ELSE IF Head(a) = Head(b) THEN StrLess(Tail(a), Tail(b))
    ELSE CodePoint[Head(a)] < CodePoint[Head(b)]

\* sorted(items) of a dict's items: by key, the keys being distinct
RECURSIVE SortedItems(_)
SortedItems(items) ==
    IF items = <<>> THEN <<>>
    ELSE LET m == CHOOSE i \in 1..Len(items) :
                      \A j \in 1..Len(items) : j = i \/ StrLess(items[i].key, items[j].key)
         IN  <<items[m]>> \o
             SortedItems([k \in 1..(Len(items) - 1) |-> IF k < m THEN items[k] ELSE items[k + 1]])

\* s.split("-")
RECURSIVE SplitDash(_)
SplitDash(s) ==
    IF \E i \in 1..Len(s) : s[i] = "-"
    THEN LET i == CHOOSE i \in 1..Len(s) : s[i] = "-" /\ \A j \in 1..(i - 1) : s[j] # "-"
         IN  <<SubSeq(s, 1, i - 1)>> \o SplitDash(SubSeq(s, i + 1, Len(s)))
    ELSE <<s>>

\* int(s) succeeds on a non-empty string of digits
IsIntLiteral(s) == s # <<>> /\ \A i \in 1..Len(s) : s[i] \in DigitChars

IsLeap(year) == (year % 4 = 0 /\ year % 100 # 0) \/ year % 400 = 0

DaysInMonth(year, month) ==
    IF month = 2 THEN (IF IsLeap(year) THEN 29 ELSE 28)
    ELSE IF month \in {4, 6, 9, 11} THEN 30
    ELSE 31

InRange(s, i, lo, hi) ==
    IsDigitAt(s, i) /\ DigitVal[s[i]] >= lo /\ DigitVal[s[i]] <= hi

\* %d: 3[0-1]|[1-2]\d|0[1-9]|[1-9]| [1-9], the length of the match at j (0: none)
DayLenAt(s, j) ==
    IF IsCharAt(s, j, "3") /\ InRange(s, j + 1, 0, 1) THEN 2
    ELSE IF InRange(s, j, 1, 2) /\ IsDigitAt(s, j + 1) THEN 2
    ELSE IF IsCharAt(s, j, "0") /\ InRange(s, j + 1, 1, 9) THEN 2
    ELSE IF InRange(s, j, 1, 9) THEN 1
    ELSE IF IsCharAt(s, j, " ") /\ InRange(s, j + 1, 1, 9) THEN 2
    ELSE 0

\* %m: 1[0-2]|0[1-9]|[1-9], the length of the match at i that lets "-%d" match
MonthLenAt(s, i) ==
    IF /\ \/ IsCharAt(s, i, "1") /\ InRange(s, i + 1, 0, 2)
          \/ IsCharAt(s, i, "0") /\ InRange(s, i + 1, 1, 9)
       /\ IsCharAt(s, i + 2, "-")
       /\ DayLenAt(s, i + 3) > 0
    THEN 2
    ELSE IF InRange(s, i, 1, 9) /\ IsCharAt(s, i + 1, "-") /\ DayLenAt(s, i + 2) > 0
    THEN 1
    ELSE 0

NoDate == [ok |-> FALSE, year |-> 0, month |-> 0, day |-> 0]

\* datetime.strptime(date_str, "%Y-%m-%d"); ok is FALSE where it raises ValueError
strptime(date_str) ==
    IF ~(/\ \A k \in 1..4 : IsDigitAt(date_str, k)
         /\ IsCharAt(date_str, 5, "-")
         /\ MonthLenAt(date_str, 6) > 0)
    THEN NoDate
    ELSE LET ml == MonthLenAt(date_str, 6)
             dl == DayLenAt(date_str, 7 + ml)
             year == DigitsToInt(SubSeq(date_str, 1, 4))
             month == DigitsToInt(SubSeq(date_str, 6, 5 + ml))
             dtext == SubSeq(date_str, 7 + ml, 6 + ml + dl)
             day == DigitsToInt(IF Head(dtext) = " " THEN Tail(dtext) ELSE dtext)
         IN  IF 6 + ml + dl # Len(date_str) THEN NoDate
             ELSE IF year < 1 \/ day > DaysInMonth(year, month) THEN NoDate
             ELSE [ok |-> TRUE, year |-> year, month |-> month, day |-> day]

\* repr(v) of a decoded value (strings without quotes or backslashes)
RECURSIVE PyRepr(_), JoinItems(_)
JoinItems(items) ==
    IF items = <<>> THEN <<>>
    ELSE <<"'">> \o items[1].key \o <<"'">> \o <<":"," ">> \o PyRepr(items[1].value) \o
         (IF Len(items) > 1 THEN <<","," ">> ELSE <<>>) \o JoinItems(Tail(items))

PyRepr(v) ==
    CASE v.t = "NoneType" -> <<"N","o","n","e">>
      [] v.t = "bool" -> (IF v.n = 1 THEN <<"T","r","u","e">> ELSE <<"F","a","l","s","e">>)
      [] v.t = "int" -> (IF v.n < 0 THEN <<"-">> \o IntToStr(-v.n) ELSE IntToStr(v.n))
      [] v.t = "str" -> <<"'">> \o v.s \o <<"'">>
      [] v.t = "dict" -> <<"{">> \o JoinItems(v.items) \o <<"}">>

\* bool(v) of a decoded value that is neither None nor a str
Truthy(v) == IF v.t = "dict" THEN v.items # <<>> ELSE v.n # 0

\* lines 289-296: the stored value for lunch
Coerce(lunch) ==
    IF lunch.t = "NoneType" THEN JNull
    ELSE IF lunch.t = "str" THEN (IF strip(lunch.s) # <<>> THEN JStr(strip(lunch.s)) ELSE JNull)
    ELSE IF Truthy(lunch) THEN JStr(PyRepr(lunch))
    ELSE JNull

\* lines 278-296: the entries kept, in the order of the input
RECURSIVE Keep(_, _, _)
Keep(items, year, month) ==
    IF items = <<>> THEN <<>>
    ELSE LET date == strptime(Head(items).key)
         IN  IF ~date.ok THEN Keep(Tail(items), year, month)
             ELSE IF date.year # year \/ date.month # month THEN Keep(Tail(items), year, month)
             ELSE <<[key |-> Head(items).key, value |-> Coerce(Head(items).value)]>> \o
                  Keep(Tail(items), year, month)

ValidateRaise(e) == [exc |-> e, value |-> JNull]

validate_menu_map(raw_menu_map, month_key) ==
    LET parts == SplitDash(month_key)
    IN  IF Len(parts) # 2 \/ \E i \in 1..Len(parts) : ~IsIntLiteral(parts[i])
        THEN ValidateRaise("ValueError")
        ELSE IF raw_menu_map.t # "dict" THEN ValidateRaise("AttributeError")
        ELSE LET validated == SortedItems(Keep(raw_menu_map.items, DigitsToInt(parts[1]),
                                               DigitsToInt(parts[2])))
             IN  IF validated = <<>> THEN ValidateRaise("ValueError")
                 ELSE [exc |-> "none", value |-> JDict(validated)]

(***************************************************************************)
(* The state before any run of main().                                     *)
(***************************************************************************)
NoExit == -1

NoStatus == [written |-> FALSE, state |-> "", current_month |-> <<>>,
             menu_month_detected |-> <<>>]

NoEnviron == [GEMINI_API_KEY |-> <<>>, MENU_IMAGE_URL |-> <<>>, MENU_MONTH |-> <<>>]

StartClock == [year |-> 2025, month |-> 12]

MainIdle ==
    /\ clock = StartClock
    /\ environ = NoEnviron
    /\ menu_files = <<>>
    /\ raw_files = <<>>
    /\ status_file = NoStatus
    /\ pc = "idle"
    /\ meta = NoMeta
    /\ current_month_key = <<>>
    /\ image_path = NoPath
    /\ menu_map = JNull
    /\ ops = <<>>
    /\ exit_code = NoExit
    /\ returned_at = "none"
    /\ prev_failed = <<>>

NoCall == [fn |-> "none"]

NoRet == [done |-> FALSE]

(***************************************************************************)
(* main() (Update Controller) and the functions it calls around the four   *)
(* components.  A run is a sequence of steps, one per call of main().      *)
(***************************************************************************)
\* get_menu_meta_from_env below line 140, where MENU_IMAGE_URL is set
get_menu_meta_from_env(env, now) ==
    LET parts == SplitDash(env.MENU_MONTH)
    IN  IF env.MENU_MONTH # <<>>
        THEN IF Len(parts) # 2 \/ \E i \in 1..Len(parts) : ~IsIntLiteral(parts[i])
             THEN Raise("ValueError")
             ELSE IF DigitsToInt(parts[2]) \notin DOMAIN MONTH_NAMES THEN Raise("KeyError")
             ELSE Return([month_name |-> MONTH_NAMES[DigitsToInt(parts[2])],
                          year |-> DigitsToInt(parts[1]),
                          month_num |-> DigitsToInt(parts[2]),
                          image_url |-> env.MENU_IMAGE_URL,
                          month_key |-> FormatMonthKey(DigitsToInt(parts[1]),
                                                       DigitsToInt(parts[2]))])
        ELSE Return([month_name |-> MONTH_NAMES[now.month],
                     year |-> now.year,
                     month_num |-> now.month,
                     image_url |-> env.MENU_IMAGE_URL,
                     month_key |-> FormatMonthKey(now.year, now.month)])

\* datetime.now().strftime("%Y-%m")
strftime_Ym(now) == IntToStr(now.year) \o <<"-">> \o Pad2(now.month)

\* mutation of IsStale: line 340's comparison never finds the image stale
IsStale_Never(month_key, current) == FALSE

\* line 340
IsStale(month_key, current) == month_key # current

\* mutation of check_if_update_needed: an existing file is not noticed
check_if_update_needed_Always(month_key, files) == TRUE

\* check_if_update_needed: json_path.exists() is month_key \in DOMAIN files
check_if_update_needed(month_key, files) == month_key \notin DOMAIN files

\* mutation of ApiKeyMissing: lines 216-217 dropped
ApiKeyMissing_Unchecked(env) == FALSE

\* line 216: not api_key
ApiKeyMissing(env) == env.GEMINI_API_KEY = <<>>

Range(seq) == {seq[i] : i \in 1..Len(seq)}

\* the except clause of main (lines 358-361)
Except ==
    /\ pc' = "exited"
    /\ exit_code' = 1
    /\ returned_at' = "L361"

\* a return 0 of main at the given line
Return0(line) ==
    /\ pc' = "exited"
    /\ exit_code' = 0
    /\ returned_at' = line

\* the inputs of main that the model draws from
ApiKeys == {<<>>, <<"k">>}

OverrideUrl == <<"h","t","t","p","s",":","/","/","f","i","l","e","s",".","e","c","a","t","h","o","l","i","c",".","c","o","m","/","p","i","c","t","u","r","e","s","/","2","0","2","6","/","1","/","m","e","n","u",".","j","p","g">>

Environments ==
    [GEMINI_API_KEY : ApiKeys, MENU_IMAGE_URL : {<<>>}, MENU_MONTH : {<<>>}] \cup
    [GEMINI_API_KEY : ApiKeys, MENU_IMAGE_URL : {OverrideUrl},
     MENU_MONTH : {<<>>, <<"2","0","2","6","-","1">>, <<"2","0","2","6","-","1","3">>, <<"2","0","2","6">>}]

\* what the page load delivers: an exception, the challenge page, or the sources
PageOutcomes ==
    {[exc |-> "TimeoutError", image_urls |-> <<>>],
     [exc |-> "RuntimeError", image_urls |-> <<>>],
     [exc |-> "none", image_urls |-> <<>>],
     [exc |-> "none", image_urls |->
         <<<<"h","t","t","p","s",":","/","/","f","i","l","e","s",".","e","c","a","t","h","o","l","i","c",".","c","o","m","/","p","i","c","t","u","r","e","s","/","2","0","2","1","/","7","/","c","o","m","b","o","_","l","o","g","o",".","p","n","g">>,
           <<"h","t","t","p","s",":","/","/","f","i","l","e","s",".","e","c","a","t","h","o","l","i","c",".","c","o","m","/","p","i","c","t","u","r","e","s","/","2","0","2","6","/","1","/","m","e","n","u",".","j","p","g">>>>],
     [exc |-> "none", image_urls |->
         <<<<"h","t","t","p","s",":","/","/","f","i","l","e","s",".","e","C","a","t","h","o","l","i","c",".","c","o","m","/","p","i","c","t","u","r","e","s","/","2","0","2","5","/","1","2","/","m","e","n","u",".","J","P","G">>>>],
     [exc |-> "none", image_urls |->
         <<<<"h","t","t","p","s",":","/","/","f","i","l","e","s",".","e","c","a","t","h","o","l","i","c",".","c","o","m","/","p","i","c","t","u","r","e","s","/","m","i","s","c","/","m","e","n","u",".","j","p","g">>>>]}

JpegBytes == <<255, 216, 255>>

HtmlBytes == <<60, 104>>

PrimaryFailure == [exc |-> TRUE, status_code |-> 0, content |-> <<>>, content_type |-> <<>>]

SecondaryFailure == [exc |-> TRUE, returncode |-> 0, stdout |-> <<>>]

MainPrimaryOutcomes ==
    {PrimaryFailure,
     [exc |-> FALSE, status_code |-> 200, content |-> JpegBytes, content_type |-> <<>>],
     [exc |-> FALSE, status_code |-> 200, content |-> <<>>, content_type |-> <<>>]}

MainSecondaryOutcomes ==
    {SecondaryFailure, [exc |-> FALSE, returncode |-> 0, stdout |-> JpegBytes]}

\* what generate_content delivers: an exception or response.text
VisionOutcomes ==
    {[exc |-> "APIError", text |-> <<>>],
     [exc |-> "none", text |-> <<"{","\"","2","0","2","6","-","0","1","-","1","2","\"",":"," ","\"","P","i","z","z","a","\"",","," ","\"","2","0","2","5","-","1","2","-","0","1","\"",":"," ","n","u","l","l","}">>],
     [exc |-> "none", text |-> <<Backtick,Backtick,Backtick,"j","s","o","n","\n","{","\"","2","0","2","6","-","0","1","-","1","2","\"",":"," ","\""," ","T","a","c","o","s"," ","\"",","," ","\"","2","0","2","5","-","1","2","-","1","\"",":"," ","\"","S","o","u","p","\"","}","\n",Backtick,Backtick,Backtick>>],
     [exc |-> "none", text |-> <<"{","\"","2","0","2","6","-","0","1","-","X","X","\"",":"," ","\"","B","a","d"," ","d","a","t","e","\"","}">>],
     [exc |-> "none", text |-> <<"n","o"," ","m","e","n","u"," ","f","o","u","n","d">>],
     [exc |-> "none", text |-> <<"7">>]}

\* a new process: main() is entered with fresh locals
StartRun ==
    /\ pc \in {"idle", "exited"}
    /\ \E env \in Environments : environ' = env
    /\ pc' = "get_menu_meta"
    /\ meta' = NoMeta
    /\ current_month_key' = <<>>
    /\ image_path' = NoPath
    /\ menu_map' = JNull
    /\ ops' = <<>>
    /\ exit_code' = NoExit
    /\ returned_at' = "none"
    /\ prev_failed' = IF returned_at = "L361" /\ "requests.get" \in Range(ops)
                      THEN meta.month_key ELSE <<>>
    /\ UNCHANGED <<clock, menu_files, raw_files, status_file, call, ret>>

\* lines 334-335 with the override set
GetMetaFromEnv ==
    /\ pc = "get_menu_meta"
    /\ environ.MENU_IMAGE_URL # <<>>
    /\ LET r == get_menu_meta_from_env(environ, clock)
       IN  IF r.exc = "none"
           THEN /\ meta' = r.value
                /\ pc' = "compare_month"
                /\ UNCHANGED <<exit_code, returned_at>>
           ELSE /\ Except
                /\ UNCHANGED meta
    /\ UNCHANGED <<clock, environ, menu_files, raw_files, status_file, current_month_key,
                   image_path, menu_map, ops, prev_failed, call, ret>>

\* lines 335-336: fetch_menu_meta_with_playwright
FetchMetaWithPlaywright ==
    /\ pc = "get_menu_meta"
    /\ environ.MENU_IMAGE_URL = <<>>
    /\ ops' = Append(ops, "page_load")
    /\ \E page \in PageOutcomes :
           LET r == extract_menu_meta_from_images(page.image_urls, clock)
           IN  IF page.exc = "none" /\ r.exc = "none"
               THEN /\ meta' = r.value
                    /\ pc' = "compare_month"
                    /\ UNCHANGED <<exit_code, returned_at>>
               ELSE /\ Except
                    /\ UNCHANGED meta
    /\ UNCHANGED <<clock, environ, menu_files, raw_files, status_file, current_month_key,
                   image_path, menu_map, prev_failed, call, ret>>

\* lines 339-342
CompareMonth ==
    /\ pc = "compare_month"
    /\ current_month_key' = strftime_Ym(clock)
    /\ IF IsStale(meta.month_key, strftime_Ym(clock))
       THEN Return0("L342")
       ELSE /\ pc' = "check_if_update_needed"
            /\ UNCHANGED <<exit_code, returned_at>>
    /\ UNCHANGED <<clock, environ, menu_files, raw_files, status_file, meta, image_path,
                   menu_map, ops, prev_failed, call, ret>>

\* lines 344-346
CheckIfUpdateNeeded ==
    /\ pc = "check_if_update_needed"
    /\ IF ~check_if_update_needed(meta.month_key, menu_files)
       THEN Return0("L346")
       ELSE /\ pc' = "download_image"
            /\ UNCHANGED <<exit_code, returned_at>>
    /\ UNCHANGED <<clock, environ, menu_files, raw_files, status_file, meta,
                   current_month_key, image_path, menu_map, ops, prev_failed, call, ret>>

\* line 348
DownloadImage ==
    /\ pc = "download_image"
    /\ \E primary \in MainPrimaryOutcomes, secondary \in MainSecondaryOutcomes :
           LET r == download_image(meta["image_url"], meta["month_key"], primary, secondary)
           IN  IF r.exc = "none"
               THEN /\ ops' = ops \o r.calls \o <<"write_raw">>
                    /\ raw_files' = (r.image_path :> r.image_data) @@ raw_files
                    /\ image_path' = r.image_path
                    /\ pc' = "parse_image_with_gemini"
                    /\ UNCHANGED <<exit_code, returned_at>>
               ELSE /\ ops' = ops \o r.calls
                    /\ Except
                    /\ UNCHANGED <<raw_files, image_path>>
    /\ UNCHANGED <<clock, environ, menu_files, status_file, meta, current_month_key,
                   menu_map, prev_failed, call, ret>>

\* line 349: parse_image_with_gemini
ParseImageWithGemini ==
    /\ pc = "parse_image_with_gemini"
    /\ IF ApiKeyMissing(environ)
       THEN /\ Except
            /\ UNCHANGED <<ops, menu_map>>
       ELSE /\ ops' = Append(ops, "vision")
            /\ \E vision \in VisionOutcomes :
                   IF vision.exc = "none" /\ parse_response(vision.text).exc = "none"
                   THEN /\ menu_map' = parse_response(vision.text).value
                        /\ pc' = "validate_menu_map"
                        /\ UNCHANGED <<exit_code, returned_at>>
                   ELSE /\ Except
                        /\ UNCHANGED menu_map
    /\ UNCHANGED <<clock, environ, menu_files, raw_files, status_file, meta,
                   current_month_key, image_path, prev_failed, call, ret>>

\* mutation of ValidateMenuMap: a failed validation is swallowed and the raw
\* map goes on to be written
ValidateMenuMap_Swallow ==
    /\ pc = "validate_menu_map"
    /\ LET r == validate_menu_map(menu_map, meta["month_key"])
       IN  /\ menu_map' = IF r.exc = "none" THEN r.value ELSE menu_map
           /\ pc' = "write_menu_json"
           /\ UNCHANGED <<exit_code, returned_at>>
    /\ UNCHANGED <<clock, environ, menu_files, raw_files, status_file, meta,
                   current_month_key, image_path, ops, prev_failed, call, ret>>

\* line 350
ValidateMenuMap ==
    /\ pc = "validate_menu_map"
    /\ LET r == validate_menu_map(menu_map, meta["month_key"])
       IN  IF r.exc = "none"
           THEN /\ menu_map' = r.value
                /\ pc' = "write_menu_json"
                /\ UNCHANGED <<exit_code, returned_at>>
           ELSE /\ Except
                /\ UNCHANGED menu_map
    /\ UNCHANGED <<clock, environ, menu_files, raw_files, status_file, meta,
                   current_month_key, image_path, ops, prev_failed, call, ret>>

\* lines 351-356: write_menu_json, then return 0
WriteMenuJson ==
    /\ pc = "write_menu_json"
    /\ menu_files' = (meta["month_key"] :> menu_map) @@ menu_files
    /\ ops' = Append(ops, "write_menu")
    /\ Return0("L356")
    /\ UNCHANGED <<clock, environ, raw_files, status_file, meta, current_month_key,
                   image_path, menu_map, prev_failed, call, ret>>

MonthsSinceStart == (clock.year - StartClock.year) * 12 + clock.month - StartClock.month

\* the calendar moves on to the next month
Tick ==
    /\ MonthsSinceStart < MaxTicks
    /\ clock' = IF clock.month = 12 THEN [year |-> clock.year + 1, month |-> 1]
                ELSE [clock EXCEPT !.month = clock.month + 1]
    /\ UNCHANGED <<environ, menu_files, raw_files, status_file, pc, meta,
                   current_month_key, image_path, menu_map, ops, exit_code, returned_at,
                   prev_failed, call, ret>>

(***************************************************************************)
(* Spec: runs of main(), one after the other, while the calendar advances. *)
(***************************************************************************)
Init ==
    /\ MainIdle
    /\ call = NoCall
    /\ ret = NoRet

Next ==
    \/ StartRun
    \/ GetMetaFromEnv
    \/ FetchMetaWithPlaywright
    \/ CompareMonth
    \/ CheckIfUpdateNeeded
    \/ DownloadImage
    \/ ParseImageWithGemini
    \/ ValidateMenuMap
    \/ WriteMenuJson
    \/ Tick

Spec == Init /\ [][Next]_vars

(***************************************************************************)
(* Claims about the Update Controller, checked under Spec.                 *)
(***************************************************************************)
FetchExtractWriteOps == {"requests.get", "curl", "write_raw", "vision", "write_menu"}

NetworkOps == {"page_load", "requests.get", "curl", "vision"}

RecordExistsAtCheck == pc = "check_if_update_needed" /\ meta.month_key \in DOMAIN menu_files

\* C1: a run whose month_key is the current month and whose MenuRecord
\* already exists downloads nothing, calls no extraction, writes no record
\* and returns 0; over any sequence of runs an existing MenuRecord keeps its
\* content.
C1_UpToDateNoOp ==
    /\ [](pc = "check_if_update_needed" =>
              /\ meta.month_key = current_month_key
              /\ Range(ops) \cap FetchExtractWriteOps = {})
    /\ [](returned_at = "L346" =>
              /\ exit_code = 0
              /\ meta.month_key \in DOMAIN menu_files
              /\ Range(ops) \cap FetchExtractWriteOps = {})
    /\ [][(RecordExistsAtCheck /\ pc' # pc) =>
              /\ pc' = "exited"
              /\ returned_at' = "L346"
              /\ exit_code' = 0
              /\ ops' = ops
              /\ raw_files' = raw_files]_vars
    /\ [][\A k \in DOMAIN menu_files :
              k \in DOMAIN menu_files' /\ menu_files'[k] = menu_files[k]]_vars

\* C1 case: a run that loaded the page returned as up to date, its record
\* written by an earlier run
C1_Witness ==
    /\ returned_at = "L346"
    /\ "page_load" \in Range(ops)
    /\ meta.month_key \in DOMAIN menu_files

\* C2: a run whose month_key differs from the current month key attempts
\* no download and no extraction, writes no MenuRecord and returns 0.
C2_StaleExitsZero ==
    (current_month_key # <<>> /\ meta.month_key # current_month_key) =>
        /\ pc = "exited"
        /\ returned_at = "L342"
        /\ exit_code = 0
        /\ Range(ops) \cap FetchExtractWriteOps = {}
        /\ meta.month_key \notin DOMAIN menu_files \/ "write_menu" \notin Range(ops)

\* C2 case: a run found the image stale and returned
C2_Witness ==
    /\ returned_at = "L342"
    /\ meta.month_key # current_month_key
    /\ "page_load" \in Range(ops)

\* C3: a run that ends in the stale-image state has written a StatusRecord
\* holding the current month key and the detected month key.
C3_StaleWritesStatus ==
    returned_at = "L342" =>
        /\ status_file.written
        /\ status_file.current_month = current_month_key
        /\ status_file.menu_month_detected = meta.month_key

FailedInNeedsUpdate == returned_at = "L361" /\ "requests.get" \in Range(ops)

\* C4: a run that reaches needs_update and fails in the Fetcher, Extractor or
\* Validator returns 1 and leaves no MenuRecord for month_key; a record is
\* written only after download, extraction and validation succeeded in the
\* same run; the run after a failed one finds no record and starts again
\* with the download.
C4_FailureWritesNothingAndRetries ==
    /\ [](FailedInNeedsUpdate =>
              /\ exit_code = 1
              /\ "write_menu" \notin Range(ops)
              /\ meta.month_key \notin DOMAIN menu_files)
    /\ []("write_menu" \in Range(ops) =>
              /\ "write_raw" \in Range(ops)
              /\ "vision" \in Range(ops)
              /\ exit_code = 0
              /\ validate_menu_map(menu_files[meta.month_key], meta.month_key).exc = "none")
    /\ [](\A k \in DOMAIN menu_files : validate_menu_map(menu_files[k], k).exc = "none")
    /\ []((pc = "check_if_update_needed" /\ prev_failed = meta.month_key) =>
              meta.month_key \notin DOMAIN menu_files)
    /\ [][(pc = "check_if_update_needed" /\ prev_failed = meta.month_key /\ pc' # pc) =>
              pc' = "download_image"]_vars
    /\ [][(pc = "download_image" /\ pc' # pc) => "requests.get" \in Range(ops')]_vars

\* C4 case: the run after a failed one went through download, extraction and
\* validation again and wrote the record
C4_Witness ==
    /\ returned_at = "L356"
    /\ prev_failed = meta.month_key
    /\ meta.month_key \in DOMAIN menu_files

RunStarted == pc # "idle"

KeyAbsent == RunStarted /\ environ.GEMINI_API_KEY = <<>>

\* C5: with the API key absent every run fails before any network
\* operation: no page load, no image download, no vision call.
C5_NoKeyFailsBeforeNetwork ==
    KeyAbsent =>
        /\ Range(ops) \cap NetworkOps = {}
        /\ pc = "exited" => exit_code = 1

\* C5 as amended: with the API key absent no vision call is made and no
\* record is written; a run that gets as far as the Extractor fails there
\* with exit code 1, after the page load and the image download.
C5_NoKeyNoVisionCall ==
    /\ [](KeyAbsent =>
              /\ "vision" \notin Range(ops)
              /\ "write_menu" \notin Range(ops)
              /\ pc \notin {"validate_menu_map", "write_menu_json"}
              /\ returned_at # "L356")
    /\ [][(KeyAbsent /\ pc = "parse_image_with_gemini" /\ pc' # pc) =>
              /\ pc' = "exited"
              /\ exit_code' = 1
              /\ ops' = ops
              /\ "requests.get" \in Range(ops)]_vars

\* C5 case: a run without the key loaded the page, downloaded the image and
\* failed at the Extractor
C5_Witness ==
    /\ KeyAbsent
    /\ returned_at = "L361"
    /\ "page_load" \in Range(ops)
    /\ "write_raw" \in Range(ops)

(***************************************************************************)
(* SpecLocate: the locator applied to every list of at most MaxUrls        *)
(* sources drawn from UrlPool, at each of the dates of Nows.               *)
(***************************************************************************)
UrlPool == {
    <<"h","t","t","p","s",":","/","/","f","i","l","e","s",".","e","c","a","t","h","o","l","i","c",".","c","o","m","/","p","i","c","t","u","r","e","s","/","2","0","2","6","/","1","/","m","e","n","u",".","j","p","g">>,
    <<"h","t","t","p","s",":","/","/","f","i","l","e","s",".","e","c","a","t","h","o","l","i","c",".","c","o","m","/","p","i","c","t","u","r","e","s","/","m","i","s","c","/","m","e","n","u",".","j","p","g">>,
    <<"h","t","t","p","s",":","/","/","f","i","l","e","s",".","e","c","a","t","h","o","l","i","c",".","c","o","m","/","p","i","c","t","u","r","e","s","/","2","0","2","1","/","7","/","l","o","g","o",".","j","p","g">>,
    <<"h","t","t","p","s",":","/","/","f","i","l","e","s",".","e","c","a","t","h","o","l","i","c",".","c","o","m","/","p","i","c","t","u","r","e","s","/","2","0","2","6","/","2","/","c","a","l",".","p","n","g">>,
    <<"h","t","t","p","s",":","/","/","f","i","l","e","s",".","e","C","a","t","h","o","l","i","c",".","c","o","m","/","p","i","c","t","u","r","e","s","/","2","0","2","5","/","1","2","/","m","e","n","u",".","J","P","G">>,
    <<"h","t","t","p","s",":","/","/","c","d","n",".","e","x","a","m","p","l","e",".","o","r","g","/","p","i","c","t","u","r","e","s","/","2","0","2","6","/","1","/","m","e","n","u",".","j","p","g">>,
    <<"/","e","c","a","t","h","o","l","i","c","/","p","i","c","t","u","r","e","s","/","2","0","2","6","/","3","/","s","e","a","l",".","j","p","g">>,
    <<"h","t","t","p","s",":","/","/","f","i","l","e","s",".","e","c","a","t","h","o","l","i","c",".","c","o","m","/","p","i","c","t","u","r","e","s","/","2","0","2","6","/","1","3","/","m","e","n","u",".","j","p","g">>,
    <<"h","t","t","p","s",":","/","/","f","i","l","e","s",".","e","c","a","t","h","o","l","i","c",".","c","o","m","/","p","i","c","t","u","r","e","s","/","2","0","2","6","/","0","/","m","e","n","u",".","j","p","g">>,
    <<"h","t","t","p","s",":","/","/","f","i","l","e","s",".","e","c","a","t","h","o","l","i","c",".","c","o","m","/","p","i","c","t","u","r","e","s","/","2","0","2","4","/","5","/","m","e","n","u",".","j","p","g">>,
    <<"/","/","f","i","l","e","s",".","e","c","a","t","h","o","l","i","c",".","c","o","m","/","p","i","c","t","u","r","e","s","/","2","0","2","6","/","4","/","c","a","l",".","g","i","f">>,
    <<"e","c","a","t","h","o","l","i","c","/","b","a","n","n","e","r",".","j","p","g">>,
    <<>> }

Nows == {[year |-> 2026, month |-> 1], [year |-> 2025, month |-> 12]}

UrlLists == UNION {[1..n -> UrlPool] : n \in 0..MaxUrls}

InitLocate ==
    /\ \E image_urls \in UrlLists, now \in Nows :
           call = [fn |-> "extract_menu_meta_from_images", image_urls |-> image_urls, now |-> now]
    /\ ret = NoRet
    /\ MainIdle

LocateReturns ==
    /\ call.fn = "extract_menu_meta_from_images"
    /\ ~ret.done
    /\ extract_menu_meta_from_images(call.image_urls, call.now).exc = "none"
    /\ ret' = [done |-> TRUE, result |-> extract_menu_meta_from_images(call.image_urls, call.now)]
    /\ UNCHANGED <<call, mainvars>>

LocateRaises ==
    /\ call.fn = "extract_menu_meta_from_images"
    /\ ~ret.done
    /\ extract_menu_meta_from_images(call.image_urls, call.now).exc # "none"
    /\ ret' = [done |-> TRUE, result |-> extract_menu_meta_from_images(call.image_urls, call.now)]
    /\ UNCHANGED <<call, mainvars>>

NextLocate == LocateReturns \/ LocateRaises

SpecLocate == InitLocate /\ [][NextLocate]_vars

(***************************************************************************)
(* Claims about the locator, checked under SpecLocate.                     *)
(***************************************************************************)
LocateDone == call.fn = "extract_menu_meta_from_images" /\ ret.done

\* a dated entry of the claims: on the approved domain, no logo/seal/icon
\* marker, and a /pictures/Y/M/ segment with Y >= now.year - 1
QualifyingDated(src, now) ==
    /\ OnApprovedDomain(src)
    /\ ~HasAssetMarker(src)
    /\ date_match(src).matched
    /\ date_match(src).year >= now.year - 1

QualifyingIdx(image_urls, now) ==
    {i \in 1..Len(image_urls) : QualifyingDated(image_urls[i], now)}

JpgIdx(image_urls, now) == {i \in QualifyingIdx(image_urls, now) : HasJpg(image_urls[i])}

MaxOf(S) == CHOOSE x \in S : \A y \in S : y <= x

MinOf(S) == CHOOSE x \in S : \A y \in S : x <= y

\* C7 as stated: whenever the list holds a qualifying dated entry, the call
\* returns the year, month and URL of the LAST qualifying dated entry, with the
\* month name of the month table (the URL resolved against the page URL).
C7_LastDatedWins ==
    (LocateDone /\ QualifyingIdx(call.image_urls, call.now) # {}) =>
        LET e == call.image_urls[MaxOf(QualifyingIdx(call.image_urls, call.now))]
        IN  /\ ret.result.exc = "none"
            /\ ret.result.value.year = date_match(e).year
            /\ ret.result.value.month_num = date_match(e).month
            /\ ret.result.value.month_name = strftime_B([month |-> date_match(e).month])
            /\ ret.result.value.image_url = urljoin(MENU_URL, e)

\* the entry the first loop ends on: the last qualifying dated entry that
\* contains .jpg, or the first qualifying dated entry when none contains .jpg
C7_Winner(image_urls, now) ==
    IF JpgIdx(image_urls, now) # {}
    THEN image_urls[MaxOf(JpgIdx(image_urls, now))]
    ELSE image_urls[MinOf(QualifyingIdx(image_urls, now))]

\* C7 amended: whenever the list holds a qualifying dated entry, the winner is
\* the last qualifying dated entry containing .jpg, else the first qualifying
\* dated entry; with the winner's month M in 1..12 the call returns the winner's
\* (Y, M), the table's month name and the winner's URL resolved against the page
\* URL; with M = 0 it returns the resolved URL with now's year and month; with
\* M > 12 it raises KeyError.
C7_JpgPreferredDatedWins ==
    (LocateDone /\ QualifyingIdx(call.image_urls, call.now) # {}) =>
        LET e == C7_Winner(call.image_urls, call.now)
            M == date_match(e).month
        IN  IF M > 12 THEN ret.result.exc = "KeyError"
            ELSE /\ ret.result.exc = "none"
                 /\ ret.result.value.image_url = urljoin(MENU_URL, e)
                 /\ IF M = 0
                    THEN /\ ret.result.value.year = call.now.year
                         /\ ret.result.value.month_num = call.now.month
                    ELSE /\ ret.result.value.year = date_match(e).year
                         /\ ret.result.value.month_num = M
                         /\ ret.result.value.month_name = strftime_B([month |-> M])

\* C7 witness: a call returned on a list whose last qualifying dated entry has
\* no .jpg while an earlier one has, and the earlier one's date was returned
C7_Witness ==
    /\ LocateDone
    /\ ret.result.exc = "none"
    /\ JpgIdx(call.image_urls, call.now) # {}
    /\ MaxOf(JpgIdx(call.image_urls, call.now)) < MaxOf(QualifyingIdx(call.image_urls, call.now))
    /\ ret.result.value.month_num = date_match(C7_Winner(call.image_urls, call.now)).month
    /\ ret.result.value.month_num # call.now.month

\* no entry of the list embeds /pictures/Y/M/ with Y >= now.year - 1
NoDatedEntry(image_urls, now) ==
    \A i \in 1..Len(image_urls) :
        ~(date_match(image_urls[i]).matched /\ date_match(image_urls[i]).year >= now.year - 1)

FallbackIdx(image_urls) ==
    {i \in 1..Len(image_urls) :
        /\ Contains(lower(image_urls[i]), <<"e","c","a","t","h","o","l","i","c">>)
        /\ Contains(lower(image_urls[i]), <<".","j","p","g">>)
        /\ ~Contains(lower(image_urls[i]), <<"l","o","g","o">>)}

\* C8: on a list with no dated entry the call returns now's year and month
\* (with now's month name) and the first approved-domain .jpg candidate without
\* a logo marker, resolved against the page URL; it raises the not-found
\* ValueError exactly when there is no such candidate.
C8_FallbackToNow ==
    (LocateDone /\ NoDatedEntry(call.image_urls, call.now)) =>
        IF FallbackIdx(call.image_urls) = {}
        THEN ret.result.exc = "ValueError"
        ELSE /\ ret.result.exc = "none"
             /\ ret.result.value.year = call.now.year
             /\ ret.result.value.month_num = call.now.month
             /\ ret.result.value.month_name = strftime_B(call.now)
             /\ ret.result.value.month_key = FormatMonthKey(call.now.year, call.now.month)
             /\ ret.result.value.image_url =
                    urljoin(MENU_URL, call.image_urls[MinOf(FallbackIdx(call.image_urls))])

\* C8 witness: a call returned on a list with no dated entry and two different
\* fallback candidates
C8_Witness ==
    /\ LocateDone
    /\ NoDatedEntry(call.image_urls, call.now)
    /\ ret.result.exc = "none"
    /\ Cardinality({call.image_urls[i] : i \in FallbackIdx(call.image_urls)}) >= 2

(***************************************************************************)
(* SpecDownload: download_image on every combination of transport          *)
(* outcomes.                                                               *)
(***************************************************************************)
StatusCodes == {200, 203, 206, 304, 404, 500}

ContentTypes == {<<>>, <<"i","m","a","g","e","/","j","p","e","g">>, <<"i","m","a","g","e","/","p","n","g">>, <<"i","m","a","g","e","/","g","i","f">>}

PrimaryOutcomes ==
    {PrimaryFailure} \cup
    [exc : {FALSE}, status_code : StatusCodes, content : {<<>>, JpegBytes},
     content_type : ContentTypes]

SecondaryOutcomes ==
    {SecondaryFailure} \cup
    [exc : {FALSE}, returncode : {0, 6}, stdout : {<<>>, JpegBytes, HtmlBytes}]

DownloadUrls == {<<"h","t","t","p","s",":","/","/","f","i","l","e","s",".","e","c","a","t","h","o","l","i","c",".","c","o","m","/","p","i","c","t","u","r","e","s","/","2","0","2","6","/","1","/","m","e","n","u",".","j","p","g">>,
                 <<"h","t","t","p","s",":","/","/","f","i","l","e","s",".","e","c","a","t","h","o","l","i","c",".","c","o","m","/","p","i","c","t","u","r","e","s","/","2","0","2","6","/","2","/","c","a","l",".","P","N","G">>,
                 <<"/","/","f","i","l","e","s",".","e","c","a","t","h","o","l","i","c",".","c","o","m","/","p","i","c","t","u","r","e","s","/","2","0","2","6","/","4","/","c","a","l",".","g","i","f">>}

InitDownload ==
    /\ \E image_url \in DownloadUrls, primary \in PrimaryOutcomes,
          secondary \in SecondaryOutcomes :
           call = [fn |-> "download_image", image_url |-> image_url,
                   month_key |-> <<"2","0","2","6","-","0","1">>, primary |-> primary, secondary |-> secondary]
    /\ ret = NoRet
    /\ MainIdle

DownloadResult ==
    download_image(call.image_url, call.month_key, call.primary, call.secondary)

DownloadReturns ==
    /\ call.fn = "download_image"
    /\ ~ret.done
    /\ DownloadResult.exc = "none"
    /\ ret' = [done |-> TRUE, result |-> DownloadResult]
    /\ UNCHANGED <<call, mainvars>>

DownloadRaises ==
    /\ call.fn = "download_image"
    /\ ~ret.done
    /\ DownloadResult.exc # "none"
    /\ ret' = [done |-> TRUE, result |-> DownloadResult]
    /\ UNCHANGED <<call, mainvars>>

NextDownload == DownloadReturns \/ DownloadRaises

SpecDownload == InitDownload /\ [][NextDownload]_vars

(***************************************************************************)
(* Claims about the fetcher, checked under SpecDownload.                   *)
(***************************************************************************)
DownloadDone == call.fn = "download_image" /\ ret.done

Count(seq, x) == Cardinality({i \in 1..Len(seq) : seq[i] = x})

\* the secondary transport counts as failed on an exception, a non-zero exit
\* or empty output
SecondaryFailed(secondary) ==
    secondary.exc \/ secondary.returncode # 0 \/ secondary.stdout = <<>>

C10_Shape(primary_ok) ==
    DownloadDone =>
        /\ Count(ret.result.calls, "requests.get") = 1
        /\ Count(ret.result.calls, "curl") <= 1
        /\ Count(ret.result.calls, "curl") = 1 => ~primary_ok
        /\ ret.result.exc # "none" <=> (~primary_ok /\ SecondaryFailed(call.secondary))

\* C10 as stated: with primary success being ANY 2xx status with a non-empty
\* body, curl is attempted only if the primary failed, each transport is
\* attempted at most once, and the error is raised iff both failed.
C10_Any2xxIsSuccess ==
    C10_Shape(/\ ~call.primary.exc
              /\ call.primary.status_code \in 200..299
              /\ call.primary.content # <<>>)

\* C10 amended: the same with primary success being status 200 exactly with a
\* non-empty body.
C10_Only200IsSuccess ==
    C10_Shape(/\ ~call.primary.exc
              /\ call.primary.status_code = 200
              /\ call.primary.content # <<>>)

\* C10 witness: the primary answered 200 with an empty body, curl was attempted
\* once and delivered the bytes that were returned
C10_Witness ==
    /\ DownloadDone
    /\ ~call.primary.exc /\ call.primary.status_code = 200 /\ call.primary.content = <<>>
    /\ ret.result.calls = <<"requests.get", "curl">>
    /\ ret.result.exc = "none"
    /\ ret.result.image_data = call.secondary.stdout

(***************************************************************************)
(* SpecParse: the response parsing on every text of ResponsePool.          *)
(***************************************************************************)
ResponsePrefixes == {<<>>, <<"H","e","r","e"," ","i","s"," ","t","h","e"," ","m","e","n","u",":"," ">>, <<Backtick,Backtick,Backtick,"j","s","o","n","\n">>, <<Backtick,Backtick,Backtick,"\n">>, <<Backtick,Backtick,Backtick,"o","o","p","s",Backtick,Backtick,Backtick," ">>}

ResponseBodies == {
    <<"{","\"","2","0","2","6","-","0","1","-","1","2","\"",":"," ","\"","P","i","z","z","a","\"","}">>,
    <<"{","\"","2","0","2","6","-","0","1","-","1","2","\"",":"," ","\"","P","i","z","z","a","\"",","," ","\"","2","0","2","6","-","0","2","-","0","1","\"",":"," ","n","u","l","l",","," ","\"","2","0","2","6","-","1","-","5","\"",":"," ","\""," ","T","a","c","o","s"," ","\"","}">>,
    <<"{","\"","2","0","2","6","-","0","1","-","X","X","\"",":"," ","7",","," ","\"","2","0","2","6","-","0","1","-","1","2","\"",":"," ","\"","\"",","," ","\"","2","0","2","6","-","0","1","-","1","2","\"",":"," ","\"","N","O"," ","S","C","H","O","O","L","\"","}">>,
    <<"{","\"","2","0","2","6","-","0","1","-","1","2","\"",":"," ","}">>,
    <<"n","o"," ","m","e","n","u"," ","f","o","u","n","d">>,
    <<"\"","2","0","2","6","-","0","1","\"">>,
    <<"5">> }

ResponseSuffixes == {<<>>, <<"\n",Backtick,Backtick,Backtick>>, <<"\n">>, <<" ","}">>, <<" ","e","n","j","o","y">>}

ResponsePool == {p \o b \o x : p \in ResponsePrefixes, b \in ResponseBodies,
                               x \in ResponseSuffixes}

InitParse ==
    /\ \E text \in ResponsePool : call = [fn |-> "parse_response", text |-> text]
    /\ ret = NoRet
    /\ MainIdle

ParseReturns ==
    /\ call.fn = "parse_response"
    /\ ~ret.done
    /\ parse_response(call.text).exc = "none"
    /\ ret' = [done |-> TRUE, result |-> parse_response(call.text)]
    /\ UNCHANGED <<call, mainvars>>

ParseRaises ==
    /\ call.fn = "parse_response"
    /\ ~ret.done
    /\ parse_response(call.text).exc # "none"
    /\ ret' = [done |-> TRUE, result |-> parse_response(call.text)]
    /\ UNCHANGED <<call, mainvars>>

NextParse == ParseReturns \/ ParseRaises

SpecParse == InitParse /\ [][NextParse]_vars

(***************************************************************************)
(* Claims about the extractor's parsing, checked under SpecParse.          *)
(***************************************************************************)
ParseDone == call.fn = "parse_response" /\ ret.done

\* the three strategies of the claim, each on the trimmed response
Strategy1(t) == json_loads(t)

Strategy2(t) == IF fence_search(t).matched THEN json_loads(fence_search(t).group)
                ELSE [ok |-> FALSE, value |-> JNull]

Strategy3(t) == IF span_search(t).matched THEN json_loads(span_search(t).group)
                ELSE [ok |-> FALSE, value |-> JNull]

FirstSuccess(t) == IF Strategy1(t).ok THEN Strategy1(t)
                   ELSE IF Strategy2(t).ok THEN Strategy2(t)
                   ELSE Strategy3(t)

ParseErrors == {"JSONDecodeError", "ValueError"}

\* C9 as stated: the three strategies are tried in order, each only after the
\* previous one failed; the value of the first one that succeeds is returned,
\* and a parse error is raised only if all three fail; so the brace span is
\* still parsed when a fenced block was found and did not parse.
C9_FallsThroughAllThree ==
    ParseDone =>
        LET t == strip(call.text)
        IN  /\ ret.result.tried[1] = "direct"
            /\ Len(ret.result.tried) > 1 => ~Strategy1(t).ok
            /\ ret.result.exc \in ParseErrors <=> ~FirstSuccess(t).ok
            /\ ret.result.exc = "none" => ret.result.value = FirstSuccess(t).value

\* a state in which the claim's disputed case happened: a fenced block was
\* found, did not parse, and the brace span would have parsed
C9_FenceFailedSpanParses ==
    /\ ParseDone
    /\ ~Strategy1(strip(call.text)).ok
    /\ fence_search(strip(call.text)).matched
    /\ ~Strategy2(strip(call.text)).ok
    /\ Strategy3(strip(call.text)).ok

(***************************************************************************)
(* SpecValidate: validate_menu_map on every raw map of at most MaxEntries  *)
(* entries over KeyPool and ValuePool, for each target month.              *)
(***************************************************************************)
KeyPool == {<<"2","0","2","6","-","0","1","-","1","2">>, <<"2","0","2","6","-","0","1","-","0","5">>, <<"2","0","2","6","-","0","2","-","0","1">>, <<"2","0","2","6","-","0","1","-","X","X">>, <<"2","0","2","6","-","1","-","5">>,
            <<"2","0","2","6","-","0","1","-"," ","7">>, <<"2","0","2","6","-","0","2","-","3","0">>}

ValuePool == {JNull, JStr(<<" ","T","a","c","o","s"," ">>), JInt(7)}

TargetMonths == {<<"2","0","2","6","-","0","1">>, <<"2","0","2","6","-","0","2">>}

RawItems ==
    UNION {{q \in [1..n -> [key : KeyPool, value : ValuePool]] :
                \A i, j \in 1..n : i # j => q[i].key # q[j].key} : n \in 0..MaxEntries}

RawMaps == {JDict(q) : q \in RawItems} \cup {JStr(<<"2","0","2","6","-","0","1">>)}

InitValidate ==
    /\ \E raw \in RawMaps, month_key \in TargetMonths :
           call = [fn |-> "validate_menu_map", menu_map |-> raw, month_key |-> month_key]
    /\ ret = NoRet
    /\ MainIdle

ValidateReturns ==
    /\ call.fn = "validate_menu_map"
    /\ ~ret.done
    /\ validate_menu_map(call.menu_map, call.month_key).exc = "none"
    /\ ret' = [done |-> TRUE, result |-> validate_menu_map(call.menu_map, call.month_key)]
    /\ UNCHANGED <<call, mainvars>>

ValidateRaises ==
    /\ call.fn = "validate_menu_map"
    /\ ~ret.done
    /\ validate_menu_map(call.menu_map, call.month_key).exc # "none"
    /\ ret' = [done |-> TRUE, result |-> validate_menu_map(call.menu_map, call.month_key)]
    /\ UNCHANGED <<call, mainvars>>

NextValidate == ValidateReturns \/ ValidateRaises

SpecValidate == InitValidate /\ [][NextValidate]_vars

(***************************************************************************)
(* Claims about the validator, checked under SpecValidate.                 *)
(***************************************************************************)
ValidateDone == call.fn = "validate_menu_map" /\ ret.done

KeysOf(d) == {d.items[i].key : i \in 1..Len(d.items)}

\* key is written YYYY-MM-DD, digit for digit, and names a day of the calendar
StrictIsoDate(key) ==
    /\ Len(key) = 10
    /\ \A i \in {1, 2, 3, 4, 6, 7, 9, 10} : key[i] \in DigitChars
    /\ key[5] = "-" /\ key[8] = "-"
    /\ DigitsToInt(SubSeq(key, 1, 4)) >= 1
    /\ DigitsToInt(SubSeq(key, 6, 7)) \in 1..12
    /\ DigitsToInt(SubSeq(key, 9, 10)) >= 1
    /\ DigitsToInt(SubSeq(key, 9, 10)) <=
           DaysInMonth(DigitsToInt(SubSeq(key, 1, 4)), DigitsToInt(SubSeq(key, 6, 7)))

\* C6: when the call returns, the keys of its result are exactly the input keys
\* that are strict YYYY-MM-DD dates of the target month (the others are dropped),
\* so every surviving key is an ISO date string of the target month.
C6_KeysExactlyIsoOfMonth ==
    (ValidateDone /\ ret.result.exc = "none") =>
        KeysOf(ret.result.value) =
            {k \in KeysOf(call.menu_map) :
                StrictIsoDate(k) /\ SubSeq(k, 1, 7) = call.month_key}

\* a state in which the claim's case happened: a returned map holds a key that
\* is not written YYYY-MM-DD
C6_NonIsoKeySurvives ==
    /\ ValidateDone
    /\ ret.result.exc = "none"
    /\ \E k \in KeysOf(ret.result.value) : ~StrictIsoDate(k)

====
